---- MODULE Spec2Model ----
(***************************************************************************)
(* Model of src/ipmac/ipmac.c: the libpcap wrapper that learns MAC/IP      *)
(* pairs from VLAN-tagged ARP and IPv6 neighbor-solicitation frames.       *)
(*                                                                         *)
(* Bytes are naturals 0..255, frames are sequences of bytes (offset o of   *)
(* the C buffer is element o+1), text is a sequence of one-character       *)
(* strings without the terminating NUL.                                    *)
(***************************************************************************)
EXTENDS Integers, Sequences, FiniteSets, TLC

(***************************************************************************)
(* Bounds of the model.                                                    *)
(***************************************************************************)
MaxCalls == 2          \* pcapRead calls per behaviour
MaxFilters == 1        \* pcapFilter calls per behaviour

(***************************************************************************)
(* Constants of the system headers the source is compiled against.         *)
(***************************************************************************)
ETHERTYPE_VLAN == 33024        \* 0x8100
ETHERTYPE_ARP == 2054          \* 0x0806
ETHERTYPE_IPV6 == 34525        \* 0x86dd
SizeofEtherHeader == 14        \* sizeof(struct ether_header)
SizeofIp6Hdr == 40             \* sizeof(struct ip6_hdr)
VlanTagLen == 4                \* the literal 4 added to packet
OffEtherShost == 6             \* offsetof(struct ether_header, ether_shost)
OffEtherType == 12             \* offsetof(struct ether_header, ether_type)
OffArpSha == 8                 \* offsetof(struct ether_arp, arp_sha)
OffArpSpa == 14                \* offsetof(struct ether_arp, arp_spa)
OffNsTarget == 8               \* offsetof(struct nd_neighbor_solicit, nd_ns_target)
MacBufferSize == 18            \* malloc(18)

NULL == "NULL"
UNINIT == "UNINIT"             \* a pointer field malloc left indeterminate

(***************************************************************************)
(* Text rendering.                                                         *)
(***************************************************************************)
HexDigits == <<"0", "1", "2", "3", "4", "5", "6", "7",
               "8", "9", "a", "b", "c", "d", "e", "f">>

\* printf("%02x", b): two lowercase hex digits, zero padded
Hex02(b) == << HexDigits[(b \div 16) + 1], HexDigits[(b % 16) + 1] >>

\* printf("%x", w) for a 16-bit word: lowercase hex, no leading zeros
RECURSIVE HexX(_)
HexX(w) == IF w < 16 THEN << HexDigits[w + 1] >>
           ELSE HexX(w \div 16) \o << HexDigits[(w % 16) + 1] >>

\* printf("%u", n): decimal, no leading zeros
RECURSIVE DecU(_)
DecU(n) == IF n < 10 THEN << HexDigits[n + 1] >>
           ELSE DecU(n \div 10) \o << HexDigits[(n % 10) + 1] >>

\* the sprintf of ether_mac: six %02x joined by colons
MacTextUnpadded(a) ==
    HexX(a[1]) \o <<":">> \o HexX(a[2]) \o <<":">> \o HexX(a[3]) \o <<":">> \o
    HexX(a[4]) \o <<":">> \o HexX(a[5]) \o <<":">> \o HexX(a[6])

MacText(a) ==
    Hex02(a[1]) \o <<":">> \o Hex02(a[2]) \o <<":">> \o Hex02(a[3]) \o <<":">> \o
    Hex02(a[4]) \o <<":">> \o Hex02(a[5]) \o <<":">> \o Hex02(a[6])

\* inet_ntop(AF_INET, ...): dotted decimal
inet_ntop4(b) ==
    DecU(b[1]) \o <<".">> \o DecU(b[2]) \o <<".">> \o DecU(b[3]) \o <<".">> \o DecU(b[4])

\* inet_ntop(AF_INET6, ...): the eight 16-bit words of the address
Words6(b) == [i \in 1..8 |-> b[2 * i - 1] * 256 + b[2 * i]] \o << >>

\* length of the run of zero words starting at word i (1-based)
RECURSIVE ZeroRun(_, _)
ZeroRun(w, i) == IF i > 8 \/ w[i] # 0 THEN 0 ELSE 1 + ZeroRun(w, i + 1)

\* the first longest run of zero words, if it has at least two words
BestLen(w) ==
    LET m == CHOOSE n \in 0..8 :
                 /\ \E i \in 1..8 : ZeroRun(w, i) = n
                 /\ \A i \in 1..8 : ZeroRun(w, i) <= n
    IN IF m < 2 THEN 0 ELSE m

BestBase(w) ==
    IF BestLen(w) = 0 THEN 0
    ELSE CHOOSE i \in 1..8 : /\ ZeroRun(w, i) = BestLen(w)
                             /\ \A j \in 1..(i - 1) : ZeroRun(w, j) < BestLen(w)

\* the output loop from word i on; the zero run [base, base+len) becomes "::"
\* and an IPv4-compatible or IPv4-mapped address ends in dotted decimal
RECURSIVE Ntop6From(_, _, _, _, _)
Ntop6From(b, w, base, len, i) ==
    IF i > 8 THEN (IF base # 0 /\ base + len = 9 THEN <<":">> ELSE << >>)
    ELSE IF base # 0 /\ i >= base /\ i < base + len
         THEN (IF i = base THEN <<":">> ELSE << >>) \o Ntop6From(b, w, base, len, i + 1)
    ELSE (IF i # 1 THEN <<":">> ELSE << >>) \o
         (IF i = 7 /\ base = 1 /\ (len = 6 \/ (len = 5 /\ w[6] = 65535))
          THEN inet_ntop4(SubSeq(b, 13, 16))
          ELSE HexX(w[i]) \o Ntop6From(b, w, base, len, i + 1))

inet_ntop6(b) ==
    LET w == Words6(b)
        len == BestLen(w)
        base == BestBase(w)
    IN Ntop6From(b, w, base, len, 1)

(***************************************************************************)
(* Frames the capture source can deliver.                                  *)
(***************************************************************************)
Zeros(n) == [i \in 1..n |-> 0] \o << >>

\* the farthest byte pcapRead can touch: the end of nd_ns_target
ImgLen == SizeofEtherHeader + VlanTagLen + SizeofIp6Hdr + OffNsTarget + 16

BE16(v) == << v \div 256, v % 256 >>

\* stations seen on the wire: source MAC, the (different) hardware address
\* inside the ARP body, IPv4 address, IPv6 target, ICMPv6 type
Hosts ==
    << [mac |-> <<170, 187, 204, 221, 238, 255>>,
        sha |-> <<2, 0, 0, 0, 0, 1>>,
        spa |-> <<10, 0, 0, 5>>,
        tgt |-> <<254, 128>> \o Zeros(13) \o <<1>>,
        icmp |-> 135],
       [mac |-> <<0, 9, 10, 16, 160, 1>>,
        sha |-> <<0, 9, 10, 16, 160, 1>>,
        spa |-> <<192, 168, 1, 200>>,
        tgt |-> <<32, 1, 13, 184, 0, 0, 0, 0, 0, 1, 0, 0, 0, 0, 0, 1>>,
        icmp |-> 134] >>

ArpBody(h) == <<0, 1, 8, 0, 6, 4, 0, 1>> \o h.sha \o h.spa \o Zeros(6) \o <<10, 0, 0, 1>>
Ip6Body(h) == <<96, 0, 0, 0, 0, 24, 58, 255>> \o h.tgt \o
              (<<255, 2>> \o Zeros(9) \o <<1, 255>> \o SubSeq(h.tgt, 14, 16)) \o
              <<h.icmp, 0, 0, 0, 0, 0, 0, 0>> \o h.tgt
\* an IPv4 header, for frames the decoder is not interested in
Ip4Body(h) == <<69, 0, 0, 28, 0, 0, 0, 0, 64, 1, 0, 0>> \o h.spa \o <<10, 0, 0, 1>>

Body(type, h) == IF type = ETHERTYPE_ARP THEN ArpBody(h)
                 ELSE IF type = ETHERTYPE_IPV6 THEN Ip6Body(h)
                 ELSE Ip4Body(h)

RECURSIVE Rep(_, _)
Rep(x, n) == IF n <= 0 THEN << >> ELSE <<x>> \o Rep(x, n - 1)

Pad(s) == s \o Rep(0, ImgLen - Len(s))

\* a frame of station h; tagged frames carry VLAN id 10
Image(tagged, type, h) ==
    Pad(Rep(255, 6) \o h.mac \o
        (IF tagged THEN BE16(ETHERTYPE_VLAN) \o <<0, 10>> ELSE << >>) \o
        BE16(type) \o Body(type, h))

\* captured lengths: shorter than an Ethernet header, than the inner
\* EtherType, than arp_spa, than nd_ns_target, and a whole frame
CapLens == {10, 16, 34, 70, ImgLen}
\* 2048 is IPv4 (0x0800), an EtherType pcapRead has no branch for
InnerTypes == {ETHERTYPE_ARP, ETHERTYPE_IPV6, 2048}

TaggedFrames == {[img |-> Image(TRUE, ty, Hosts[h]), len |-> n] :
                    ty \in InnerTypes, h \in DOMAIN Hosts, n \in CapLens}
UntaggedFrames == {[img |-> Image(FALSE, ty, Hosts[1]), len |-> ImgLen] :
                      ty \in {ETHERTYPE_ARP, ETHERTYPE_IPV6}}
Frames == TaggedFrames \cup UntaggedFrames

\* what the capture buffer holds when pcap_next returns frame f over memory
\* whose previous content was stale: only the first f.len bytes are the frame
Deliver(f, stale) == SubSeq(f.img, 1, f.len) \o SubSeq(stale, f.len + 1, ImgLen)

(***************************************************************************)
(* State.                                                                  *)
(***************************************************************************)
VARIABLES
    handle,      \* the caller's pcap_t*: "unopened", NULL, "open" or "closed"
    capbuf,      \* memory behind the pointer pcap_next last returned
    caplen,      \* header.caplen of the frame in capbuf
    got,         \* whether the latest pcap_next returned a packet
    mac_buffer,  \* the global pointer: NULL or "mac_block"
    mac_block,   \* text in the 18-byte block mac_buffer points to
    ip,          \* text in the global array ip
    ip6,         \* text in the global array ip6
    heap,        \* every struct pair pcapRead allocated, in allocation order
    ret,         \* the pair the latest pcapRead returned: heap index, 0 for NULL
    reads,       \* frame offsets the latest pcapRead dereferenced
    reported,    \* what each returned pair pointed to when it was returned
    filter,      \* outcome of the latest pcapFilter call
    op,          \* the function that ran last
    mac_arg,     \* the address most recently passed to ether_mac
    close_ret,   \* return value of the latest pcapClose
    ncalls,      \* pcapRead calls so far
    nfilters     \* pcapFilter calls so far

vars == << handle, capbuf, caplen, got, mac_buffer, mac_block, ip, ip6, heap,
           ret, reads, reported, filter, op, mac_arg, close_ret, ncalls, nfilters >>

NoFilter == [compiled |-> FALSE, installed |-> FALSE, tried_install |-> FALSE, ret |-> 0]

Init ==
    /\ handle = "unopened"
    /\ capbuf = Zeros(ImgLen)
    /\ caplen = 0
    /\ got = FALSE
    /\ mac_buffer = NULL
    /\ mac_block = << >>
    /\ ip = << >>
    /\ ip6 = << >>
    /\ heap = << >>
    /\ ret = 0
    /\ reads = {}
    /\ reported = << >>
    /\ filter = NoFilter
    /\ op = "none"
    /\ ncalls = 0
    /\ mac_arg = Zeros(6)
    /\ close_ret = 0
    /\ nfilters = 0

\* the text a char* currently designates
Deref(ptr) == CASE ptr = "mac_block" -> mac_block
                [] ptr = "ip" -> ip
                [] ptr = "ip6" -> ip6
                [] OTHER -> << >>

(***************************************************************************)
(* pcapInit, pcapClose, pcapFilter.                                        *)
(***************************************************************************)
\* pcap_open_live gives a session handle, or NULL when the device cannot be opened
pcapInit ==
    /\ handle = "unopened"
    /\ \E opened \in BOOLEAN : handle' = IF opened THEN "open" ELSE NULL
    /\ op' = "pcapInit"
    /\ UNCHANGED << capbuf, caplen, got, mac_buffer, mac_block, ip, ip6, heap,
                    ret, reads, reported, filter, mac_arg, close_ret, ncalls,
                    nfilters >>

pcapClose ==
    /\ handle \in {NULL, "open"}
    /\ IF handle = NULL
       THEN /\ close_ret' = -1
            /\ handle' = handle
       ELSE /\ close_ret' = 0
            /\ handle' = "closed"
    /\ op' = "pcapClose"
    /\ UNCHANGED << capbuf, caplen, got, mac_buffer, mac_block, ip, ip6, heap,
                    ret, reads, reported, filter, mac_arg, ncalls, nfilters >>

\* values a caller can find in the return register when control falls off
\* the end of a non-void function
IndeterminateInts == {-1, 0, 1}

\* the value pcapFilter hands back after pcap_compile and pcap_setfilter
\* returned c and s; junk is what the return register happens to hold
FilterRet(c, s, junk) == IF c = -1 THEN -1 ELSE IF s = -1 THEN -1 ELSE junk

pcapFilter ==
    /\ handle = "open"
    /\ nfilters < MaxFilters
    /\ \E c \in {-1, 0}, s \in {-1, 0}, junk \in IndeterminateInts :
          filter' = [compiled |-> c # -1,
                     tried_install |-> c # -1,
                     installed |-> c # -1 /\ s # -1,
                     ret |-> FilterRet(c, s, junk)]
    /\ nfilters' = nfilters + 1
    /\ op' = "pcapFilter"
    /\ UNCHANGED << handle, capbuf, caplen, got, mac_buffer, mac_block, ip, ip6,
                    heap, ret, reads, reported, mac_arg, close_ret, ncalls >>

(***************************************************************************)
(* ether_mac.                                                              *)
(***************************************************************************)
\* addresses a caller formats directly
Octets == {0, 10, 171}
SampleAddrs == [1..6 -> Octets]

\* the body of ether_mac: allocate the block on first use, print into it
EtherMacEffect(addr) ==
    /\ mac_buffer' = "mac_block"
    /\ mac_block' = MacText(addr)
    /\ mac_arg' = addr

ether_mac(addrs) ==
    /\ \E addr \in addrs : EtherMacEffect(addr)
    /\ op' = "ether_mac"
    /\ UNCHANGED << handle, capbuf, caplen, got, ip, ip6, heap, ret, reads,
                    reported, filter, close_ret, ncalls, nfilters >>

(***************************************************************************)
(* pcapRead.                                                               *)
(***************************************************************************)
\* a 16-bit load from the buffer as the host sees it, and ntohs of it
LoadU16(pkt, off) == pkt[off + 1] + 256 * pkt[off + 2]
ntohs(x) == (x % 256) * 256 + (x \div 256)

Span(off, n) == off..(off + n - 1)
BytesAt(pkt, off, n) == SubSeq(pkt, off + 1, off + n)

\* eptr->ether_type with eptr = packet + base
EtherTypeAt(pkt, base) == ntohs(LoadU16(pkt, base + OffEtherType))

\* &eptr->ether_shost with eptr = packet
ShostArpSha(pkt) == BytesAt(pkt, SizeofEtherHeader + VlanTagLen + OffArpSha, 6)

Shost(pkt) == BytesAt(pkt, OffEtherShost, 6)

\* &aptr->arp_spa with aptr = packet + sizeof(struct ether_header) + 4
ArpSpaOffUntagged == SizeofEtherHeader + OffArpSpa

ArpSpaOff == SizeofEtherHeader + VlanTagLen + OffArpSpa

\* &icmp6ptr->nd_ns_target with
\* icmp6ptr = packet + sizeof(struct ether_header) + sizeof(struct ip6_hdr) + 4
NsTargetOffNoIcmpHdr == SizeofEtherHeader + SizeofIp6Hdr + VlanTagLen

NsTargetOff == SizeofEtherHeader + SizeofIp6Hdr + VlanTagLen + OffNsTarget

\* which return statement of pcapRead a packet reaches
VerdictUntagged(pkt) ==
    LET t == IF EtherTypeAt(pkt, 0) = ETHERTYPE_VLAN
             THEN EtherTypeAt(pkt, VlanTagLen) ELSE EtherTypeAt(pkt, 0)
    IN IF t = ETHERTYPE_ARP THEN "arp"
       ELSE IF t = ETHERTYPE_IPV6 THEN "ip6"
       ELSE "other"

Verdict(pkt) ==
    IF EtherTypeAt(pkt, 0) # ETHERTYPE_VLAN THEN "not_vlan"
    ELSE IF EtherTypeAt(pkt, VlanTagLen) = ETHERTYPE_ARP THEN "arp"
    ELSE IF EtherTypeAt(pkt, VlanTagLen) = ETHERTYPE_IPV6 THEN "ip6"
    ELSE "other"

\* the frame offsets a call dereferences on the way to its return statement
ReadSet(pkt) ==
    LET v == Verdict(pkt)
    IN Span(OffEtherType, 2)
       \cup (IF v = "not_vlan" THEN {}
             ELSE Span(OffEtherShost, 6) \cup Span(VlanTagLen + OffEtherType, 2))
       \cup (IF v = "arp" THEN Span(ArpSpaOff, 4) ELSE {})
       \cup (IF v = "ip6" THEN Span(NsTargetOff, 16) ELSE {})

\* the struct pair as the call leaves it
PairOfKeepsBoth(v) ==
    [mac |-> IF v \in {"arp", "ip6", "other"} THEN "mac_block" ELSE UNINIT,
     ip |-> IF v \in {"arp", "ip6"} THEN "ip" ELSE UNINIT,
     ip6 |-> IF v \in {"arp", "ip6"} THEN "ip6" ELSE UNINIT,
     owner |-> IF v \in {"arp", "ip6"} THEN "caller" ELSE "leaked"]

PairOf(v) ==
    [mac |-> IF v \in {"arp", "ip6", "other"} THEN "mac_block" ELSE UNINIT,
     ip |-> IF v = "arp" THEN "ip" ELSE IF v = "ip6" THEN NULL ELSE UNINIT,
     ip6 |-> IF v = "ip6" THEN "ip6" ELSE IF v = "arp" THEN NULL ELSE UNINIT,
     owner |-> IF v \in {"arp", "ip6"} THEN "caller" ELSE "leaked"]

\* lines 63-85: decode the packet pcap_next returned into the pair malloc gave
Decode(pkt) ==
    LET v == Verdict(pkt)
        p == Len(heap) + 1
    IN /\ heap' = Append(heap, PairOf(v))
       /\ reads' = ReadSet(pkt)
       /\ IF v = "not_vlan"
          THEN UNCHANGED << mac_buffer, mac_block, mac_arg >>
          ELSE EtherMacEffect(Shost(pkt))
       /\ ip' = IF v = "arp" THEN inet_ntop4(BytesAt(pkt, ArpSpaOff, 4)) ELSE ip
       /\ ip6' = IF v = "ip6" THEN inet_ntop6(BytesAt(pkt, NsTargetOff, 16)) ELSE ip6
       /\ ret' = IF v \in {"arp", "ip6"} THEN p ELSE 0
       /\ reported' = IF v \in {"arp", "ip6"}
                      THEN Append(reported,
                                  [p |-> p,
                                   mac |-> mac_block',
                                   addr |-> IF v = "arp" THEN ip' ELSE ip6'])
                      ELSE reported

pcapRead ==
    /\ handle = "open"
    /\ ncalls < MaxCalls
    /\ ncalls' = ncalls + 1
    /\ op' = "pcapRead"
    /\ \/ \* pcap_next returns NULL: the pair allocated at line 56 is dropped
          /\ got' = FALSE
          /\ heap' = Append(heap, PairOf("not_vlan"))
          /\ ret' = 0
          /\ reads' = {}
          /\ UNCHANGED << capbuf, caplen, mac_buffer, mac_block, mac_arg, ip, ip6,
                          reported >>
       \/ \E f \in Frames, stale \in {capbuf, Zeros(ImgLen)} :
             LET pkt == Deliver(f, stale)
             IN /\ got' = TRUE
                /\ capbuf' = pkt
                /\ caplen' = f.len
                /\ Decode(pkt)
    /\ UNCHANGED << handle, filter, close_ret, nfilters >>

(***************************************************************************)
(* Specifications.                                                         *)
(***************************************************************************)
Next ==
    \/ pcapInit
    \/ pcapFilter
    \/ pcapRead
    \/ pcapClose

Spec == Init /\ [][Next]_vars

\* the formatter alone, over every address built from the sample octets
NextFmt == ether_mac(SampleAddrs)

SpecFmt == Init /\ [][NextFmt]_vars

(***************************************************************************)
(* Properties.                                                             *)
(***************************************************************************)
\* the 16-bit field at byte offset o of the capture buffer, in network order
FrameWord(o) == capbuf[o + 1] * 256 + capbuf[o + 2]
FrameBytes(o, n) == SubSeq(capbuf, o + 1, o + n)

\* texts the properties compare against
MAC_LIT_A == <<"a", "a", ":", "b", "b", ":", "c", "c", ":", "d", "d", ":", "e", "e", ":", "f", "f">>
MAC_LIT_0 == <<"0", "0", ":", "0", "0", ":", "0", "0", ":", "0", "0", ":", "0", "0", ":", "0", "0">>
MAC_LIT_W == <<"0", "0", ":", "0", "a", ":", "a", "b", ":", "a", "b", ":", "0", "a", ":", "0", "0">>
IP_LIT_A == <<"1", "0", ".", "0", ".", "0", ".", "5">>
IP_LIT_B == <<"1", "9", "2", ".", "1", "6", "8", ".", "1", ".", "2", "0", "0">>
IP6_LIT_A == <<"f", "e", "8", "0", ":", ":", "1">>
IP6_LIT_B == <<"2", "0", "0", "1", ":", "d", "b", "8", ":", ":", "1", ":", "0", ":", "0", ":", "1">>

\* the latest step was a pcapRead that was handed a packet
AfterRead == op = "pcapRead" /\ got
IsTagged == FrameWord(12) = 33024
InnerIsArp == FrameWord(16) = 2054
InnerIsIp6 == FrameWord(16) = 34525

\* the text behind the fields of the pair at heap index p
MacOf(p) == Deref(heap[p].mac)
IpOf(p) == Deref(heap[p].ip)
Ip6Of(p) == Deref(heap[p].ip6)

\* C1: pcapRead returns a pair only if the EtherType at offset 12 is the VLAN
\* marker 0x8100 and the EtherType at offset 16 is ARP or IPv6; a frame whose
\* first EtherType is not the VLAN marker, and a VLAN frame whose inner
\* EtherType is neither ARP nor IPv6, gives NULL whatever the payload is.
C1_PairOnlyForTaggedArpOrIp6 ==
    AfterRead =>
        /\ ret # 0 => IsTagged /\ (InnerIsArp \/ InnerIsIp6)
        /\ caplen >= 14 /\ ~IsTagged => ret = 0
        /\ caplen >= 18 /\ IsTagged /\ ~InnerIsArp /\ ~InnerIsIp6 => ret = 0

C1_Witness ==
    /\ AfterRead /\ caplen = ImgLen
    /\ IsTagged /\ ~InnerIsArp /\ ~InnerIsIp6
    /\ ret = 0
    /\ \E e \in DOMAIN reported : TRUE

\* C2: for a VLAN frame of at least 36 bytes whose inner EtherType is ARP the
\* returned pair has the text of frame bytes 6..11 as mac, the text of frame
\* bytes 32..35 as ip, and no ip6.
C2_ArpPair ==
    AfterRead /\ caplen >= 36 /\ IsTagged /\ InnerIsArp =>
        /\ ret # 0
        /\ MacOf(ret) = MacText(FrameBytes(6, 6))
        /\ heap[ret].ip # NULL
        /\ IpOf(ret) = inet_ntop4(FrameBytes(32, 4))
        /\ heap[ret].ip6 = NULL
        /\ (FrameBytes(6, 6) = <<170, 187, 204, 221, 238, 255>>
              => MacOf(ret) = MAC_LIT_A)
        /\ (FrameBytes(32, 4) = <<10, 0, 0, 5>> => IpOf(ret) = IP_LIT_A)
        /\ (FrameBytes(32, 4) = <<192, 168, 1, 200>> => IpOf(ret) = IP_LIT_B)

C2_Witness ==
    /\ AfterRead /\ caplen >= 36 /\ IsTagged /\ InnerIsArp
    /\ ret # 0
    /\ FrameBytes(26, 6) # FrameBytes(6, 6)
    /\ IpOf(ret) = IP_LIT_A

\* C3: for a VLAN frame of at least 82 bytes whose inner EtherType is IPv6 the
\* returned pair has the text of frame bytes 6..11 as mac, the text of frame
\* bytes 66..81 as ip6, and no ip, whatever the ICMPv6 type and code are.
C3_Ip6Pair ==
    AfterRead /\ caplen >= 82 /\ IsTagged /\ InnerIsIp6 =>
        /\ ret # 0
        /\ MacOf(ret) = MacText(FrameBytes(6, 6))
        /\ heap[ret].ip6 # NULL
        /\ Ip6Of(ret) = inet_ntop6(FrameBytes(66, 16))
        /\ heap[ret].ip = NULL
        /\ (FrameBytes(66, 16) = <<254, 128, 0, 0, 0, 0, 0, 0, 0, 0, 0, 0, 0, 0, 0, 1>>
              => Ip6Of(ret) = IP6_LIT_A)
        /\ (FrameBytes(66, 16) = <<32, 1, 13, 184, 0, 0, 0, 0, 0, 1, 0, 0, 0, 0, 0, 1>>
              => Ip6Of(ret) = IP6_LIT_B)

C3_Witness ==
    /\ AfterRead /\ caplen >= 82 /\ IsTagged /\ InnerIsIp6
    /\ ret # 0
    /\ capbuf[59] # 135
    /\ Ip6Of(ret) = IP6_LIT_B

\* C4: every pair handed to the caller has a mac and exactly one of ip and
\* ip6; what pcapRead returns is NULL or such a pair.
C4_ExactlyOneAddress ==
    /\ \A i \in DOMAIN heap :
          heap[i].owner = "caller" =>
              /\ heap[i].mac \notin {NULL, UNINIT}
              /\ heap[i].ip # UNINIT /\ heap[i].ip6 # UNINIT
              /\ (heap[i].ip = NULL) # (heap[i].ip6 = NULL)
    /\ ret \in 0..Len(heap)
    /\ ret # 0 => heap[ret].owner = "caller"
    /\ \A k \in DOMAIN reported : heap[reported[k].p].owner = "caller"

C4_Witness ==
    /\ op = "pcapRead"
    /\ \E i, j \in DOMAIN heap :
          /\ heap[i].owner = "caller" /\ heap[i].ip6 = NULL
          /\ heap[j].owner = "caller" /\ heap[j].ip = NULL

\* C5: a pair returned by an earlier call still shows the mac and address
\* text it was returned with after every later call, and no two returned
\* pairs share the storage of their text.
C5_ResultsDoNotAlias ==
    /\ \A k \in DOMAIN reported :
          LET p == reported[k].p
          IN /\ MacOf(p) = reported[k].mac
             /\ (IF heap[p].ip # NULL THEN IpOf(p) ELSE Ip6Of(p)) = reported[k].addr
    /\ \A j, k \in DOMAIN reported :
          j # k => heap[reported[j].p].mac # heap[reported[k].p].mac

\* C6: a truncated frame is a no-match: shorter than 14 bytes, a VLAN frame
\* shorter than 18, a VLAN ARP frame shorter than 36, a VLAN IPv6 frame
\* shorter than 82.
C6_TruncatedIsNoMatch ==
    AfterRead /\ (\/ caplen < 14
                  \/ IsTagged /\ caplen < 18
                  \/ IsTagged /\ InnerIsArp /\ caplen < 36
                  \/ IsTagged /\ InnerIsIp6 /\ caplen < 82)
        => ret = 0

\* C7: every frame offset a pcapRead call reads lies below the captured
\* length of the frame.
C7_ReadsWithinCaplen ==
    AfterRead => \A o \in reads : o < caplen

\* C8: ether_mac writes 17 characters, the six octets in input order as two
\* lowercase hex digits each, joined by colons; with the terminator they fit
\* the 18-byte block.
HexValue(c) == CHOOSE v \in 0..15 : HexDigits[v + 1] = c
LowerHex == {HexDigits[v] : v \in 1..16}

C8_MacFormat ==
    op = "ether_mac" =>
        /\ mac_buffer # NULL
        /\ Len(mac_block) = 17
        /\ Len(mac_block) + 1 <= MacBufferSize
        /\ \A k \in 1..5 : mac_block[3 * k] = ":"
        /\ \A k \in 1..6 :
              /\ mac_block[3 * k - 2] \in LowerHex
              /\ mac_block[3 * k - 1] \in LowerHex
              /\ 16 * HexValue(mac_block[3 * k - 2]) + HexValue(mac_block[3 * k - 1])
                    = mac_arg[k]
        /\ (mac_arg = <<0, 0, 0, 0, 0, 0>> => mac_block = MAC_LIT_0)

C8_Witness ==
    /\ op = "ether_mac"
    /\ mac_arg = <<0, 10, 171, 171, 10, 0>>
    /\ mac_block = MAC_LIT_W

\* C9: a call has no effect beyond its return value: every pair it allocated
\* is returned or released, and a call that returns NULL leaves the text
\* buffers as they were.
C9_NoEffectBeyondReturn ==
    [][ ncalls' = ncalls + 1 =>
          /\ \A i \in DOMAIN heap' : heap'[i].owner \in {"caller", "released"}
          /\ ret' = 0 => /\ mac_buffer' = mac_buffer
                         /\ mac_block' = mac_block
                         /\ ip' = ip
                         /\ ip6' = ip6 ]_vars

\* C10: pcapFilter returns -1 when the compile fails, without trying the
\* install, or when the install fails, and a value other than -1 when both
\* succeed.
C10_FilterOutcome ==
    op = "pcapFilter" =>
        /\ ~filter.compiled => filter.ret = -1 /\ ~filter.tried_install
        /\ filter.compiled /\ ~filter.installed => filter.ret = -1
        /\ filter.compiled /\ filter.installed => filter.ret # -1

====
